---- MODULE Spec2Model ----
(***************************************************************************)
(* Tic-tac-toe against a minimax AI (src/tictactoe.js).                    *)
(*                                                                         *)
(* The program state is the module-level board array origBoard, the flag   *)
(* gameActive and the setTimeout callbacks that are scheduled but have not *)
(* fired yet.  The operations are startGame, the click handler turnClick   *)
(* and the delayed callback () => turn(bestSpot(), aiPlayer).              *)
(*                                                                         *)
(* A cell of origBoard holds either its own index (a JavaScript number:    *)
(* the cell is empty) or a player's mark.  TLC cannot compare a number     *)
(* with a string, so the marks 'X' and 'O' are written as their character  *)
(* codes 88 and 79; typeof s === 'number' is then s \in 0..8.              *)
(***************************************************************************)
EXTENDS Integers, Sequences, FiniteSets, TLC

VARIABLES
    origBoard,    \* the board array, a function 0..8 -> cell value
    gameActive,   \* the gameActive flag
    message,      \* the text of the element 'message'
    highlight,    \* the background colour of each cell
    timers,       \* pending setTimeout callbacks, oldest first; each entry
                  \* records the cell bestSpot selected on the board as it
                  \* stood when the callback was scheduled (history only:
                  \* the callback itself carries no data)
    lastOp,       \* history: what the last handler did
    aiSince,      \* history: AI moves applied since the last accepted human
                  \* move of this game (-1: no human move yet in this game)
    strict,       \* history: this game has so far been X, O, X, O, ...
    optimal,      \* history: every human move of this game was the cell
                  \* minimax selects for the Human
    call          \* argument and result of a direct call of a pure function

vars ==
    <<origBoard, gameActive, message, highlight, timers, lastOp, aiSince,
      strict, optimal, call>>

\* ------------------------------------------------------------------------
\* Bounds

\* At most this many callbacks are pending at once.
MaxPending == 2

\* ------------------------------------------------------------------------
\* Constants of the program

huPlayer == 88
aiPlayer == 79

\* The value of a missing property (the index of a result that has none).
undefined == -1

\* The null returned by checkWin when no line is complete.
null == <<>>

\* Stands for JavaScript's Infinity: larger than every score.
Infinity == 1000

winCombos ==
    << <<0, 1, 2>>, <<3, 4, 5>>, <<6, 7, 8>>,
       <<0, 3, 6>>, <<1, 4, 7>>, <<2, 5, 8>>,
       <<0, 4, 8>>, <<6, 4, 2>> >>

Cells == 0..8

\* typeof s === 'number'
typeofNumber(s) == s \in Cells

\* Array.from(Array(9).keys())
emptyBoard == [i \in Cells |-> i]

\* Every value the board array can take: cell i holds i, 'X' or 'O'.
AllBoards ==
    { [i \in Cells |-> IF t[i] = 0 THEN i ELSE t[i]] :
        t \in [Cells -> {0, huPlayer, aiPlayer}] }

\* ------------------------------------------------------------------------
\* checkWin

\* The loop without its break: the last complete line is returned.
RECURSIVE checkWinLoopNoBreak(_, _, _)
checkWinLoopNoBreak(plays, player, k) ==
    IF k > Len(winCombos) THEN null
    ELSE LET later == checkWinLoopNoBreak(plays, player, k + 1)
         IN  IF later # null THEN later
             ELSE IF \A e \in 1..3 : winCombos[k][e] \in plays
                  THEN << [index |-> k - 1, player |-> player] >>
                  ELSE null

\* The for-loop of checkWin over winCombos.entries(), from entry k on;
\* plays is the array of indexes the player has played.
RECURSIVE checkWinLoop(_, _, _)
checkWinLoop(plays, player, k) ==
    IF k > Len(winCombos) THEN null
    ELSE IF \A e \in 1..3 : winCombos[k][e] \in plays
         THEN << [index |-> k - 1, player |-> player] >>
         ELSE checkWinLoop(plays, player, k + 1)

checkWin(board, player) ==
    LET plays == {i \in Cells : board[i] = player}
    IN  checkWinLoop(plays, player, 1)

\* ------------------------------------------------------------------------
\* emptySquares, checkTie

\* origBoard.filter(s => typeof s === 'number').  The function reads the
\* global origBoard; every caller passes (or means) that same array.
emptySquares(board) ==
    SelectSeq([i \in 1..9 |-> board[i - 1]], typeofNumber)

\* A tie declared one move early.
checkTieEarly(board) == Len(emptySquares(board)) <= 1

\* A tie that is never detected.
checkTieNever(board) == Len(emptySquares(board)) < 0

checkTie(board) == Len(emptySquares(board)) = 0

\* ------------------------------------------------------------------------
\* minimax

\* The recursion of minimax is evaluated once per (board, player) and kept
\* in a table.  A board is numbered by reading its cells as base-3 digits
\* (0 empty, 1 'X', 2 'O'); a call (board, player) has the key
\* boardKey(board) for 'X' and NumBoards + boardKey(board) for 'O'.
NumBoards == 3^9

digit(s) == IF typeofNumber(s) THEN 0 ELSE IF s = huPlayer THEN 1 ELSE 2

boardKey(board) ==
    digit(board[0]) + 3 * digit(board[1]) + 9 * digit(board[2])
    + 27 * digit(board[3]) + 81 * digit(board[4]) + 243 * digit(board[5])
    + 729 * digit(board[6]) + 2187 * digit(board[7]) + 6561 * digit(board[8])

callKey(board, player) ==
    boardKey(board) + (IF player = huPlayer THEN 0 ELSE NumBoards)

\* Number of marked cells.
marked(board) == Cardinality({i \in Cells : ~typeofNumber(board[i])})

\* The result of the recursive call minimax(board, player), read from rec,
\* the sequence of the tables for the boards with 10 - Len(rec), ..., 9
\* marks.
recursive(rec, board, player) ==
    rec[marked(board) - 9 + Len(rec)][callKey(board, player)]

\* The MAXIMIZER loop with >= for >: the last of the highest scores wins.
RECURSIVE maxLoopLast(_, _, _, _)
maxLoopLast(moves, i, bestScore, bestMove) ==
    IF i > Len(moves) THEN bestMove
    ELSE IF moves[i].score >= bestScore
         THEN maxLoopLast(moves, i + 1, moves[i].score, i)
         ELSE maxLoopLast(moves, i + 1, bestScore, bestMove)

\* The MAXIMIZER loop at the end of minimax, from move i on: the position
\* in moves of the first move with the highest score.
RECURSIVE maxLoop(_, _, _, _)
maxLoop(moves, i, bestScore, bestMove) ==
    IF i > Len(moves) THEN bestMove
    ELSE IF moves[i].score > bestScore
         THEN maxLoop(moves, i + 1, moves[i].score, i)
         ELSE maxLoop(moves, i + 1, bestScore, bestMove)

\* The MINIMIZER loop, likewise.
RECURSIVE minLoop(_, _, _, _)
minLoop(moves, i, bestScore, bestMove) ==
    IF i > Len(moves) THEN bestMove
    ELSE IF moves[i].score < bestScore
         THEN minLoop(moves, i + 1, moves[i].score, i)
         ELSE minLoop(moves, i + 1, bestScore, bestMove)

\* The roles exchanged: the AI takes the lowest score, the Human the
\* highest.
bestMoveSwapped(moves, player) ==
    IF player = aiPlayer
    THEN minLoop(moves, 1, Infinity, undefined)
    ELSE maxLoop(moves, 1, -Infinity, undefined)

\* The test of the player always true (player = aiPlayer written for
\* player === aiPlayer): both players take the highest score.
bestMoveAlwaysMax(moves, player) ==
    maxLoop(moves, 1, -Infinity, undefined)

\* The choice of bestMove among the collected moves.
bestMoveOf(moves, player) ==
    IF player = aiPlayer
    THEN maxLoop(moves, 1, -Infinity, undefined)
    ELSE minLoop(moves, 1, Infinity, undefined)

\* The AI's line tested before the Human's.
terminalAiFirst(newBoard, availSpots) ==
    IF checkWin(newBoard, aiPlayer) # null THEN <<10>>
    ELSE IF checkWin(newBoard, huPlayer) # null THEN <<-10>>
    ELSE IF Len(availSpots) = 0 THEN <<0>>
    ELSE <<>>

\* The terminal states of minimax: <<score>> when the board is terminal,
\* <<>> when the search goes on.
terminal(newBoard, availSpots) ==
    IF checkWin(newBoard, huPlayer) # null THEN <<-10>>
    ELSE IF checkWin(newBoard, aiPlayer) # null THEN <<10>>
    ELSE IF Len(availSpots) = 0 THEN <<0>>
    ELSE <<>>

\* The loop without step 4: the temporary move is never undone.
RECURSIVE collectMovesNoUndo(_, _, _, _, _, _)
collectMovesNoUndo(rec, board, availSpots, i, player, moves) ==
    IF i > Len(availSpots) THEN [moves |-> moves, board |-> board]
    ELSE LET index  == board[availSpots[i]]
             placed == [board EXCEPT ![availSpots[i]] = player]
             result == IF player = aiPlayer
                       THEN recursive(rec, placed, huPlayer)
                       ELSE recursive(rec, placed, aiPlayer)
         IN  collectMovesNoUndo(rec, result.board, availSpots, i + 1, player,
                                Append(moves, [index |-> index,
                                               score |-> result.score,
                                               board |-> placed]))

\* The loop that collects the moves, from available spot i on.  The loop
\* writes the player's mark into the board, calls minimax for the other
\* player and writes the saved index back; board is the array as the
\* previous iteration left it.  rec holds the results of the recursive
\* calls.  Each move also records the array that was passed to the
\* recursive call (history only: the code keeps index and score).
RECURSIVE collectMoves(_, _, _, _, _, _)
collectMoves(rec, board, availSpots, i, player, moves) ==
    IF i > Len(availSpots) THEN [moves |-> moves, board |-> board]
    ELSE LET index  == board[availSpots[i]]
             placed == [board EXCEPT ![availSpots[i]] = player]
             result == IF player = aiPlayer
                       THEN recursive(rec, placed, huPlayer)
                       ELSE recursive(rec, placed, aiPlayer)
             undone == [result.board EXCEPT ![availSpots[i]] = index]
         IN  collectMoves(rec, undone, availSpots, i + 1, player,
                          Append(moves, [index |-> index,
                                         score |-> result.score,
                                         board |-> placed]))

\* The body of minimax(newBoard, player).  The result carries, besides
\* score and index, the array as the call leaves it.
minimaxBody(rec, newBoard, player) ==
    LET availSpots == emptySquares(newBoard)
        base       == terminal(newBoard, availSpots)
    IN  IF base # <<>>
        THEN [score |-> base[1], index |-> undefined, board |-> newBoard]
        ELSE LET r == collectMoves(rec, newBoard, availSpots, 1, player, <<>>)
                 bestMove == bestMoveOf(r.moves, player)
             IN  [score |-> r.moves[bestMove].score,
                  index |-> r.moves[bestMove].index,
                  board |-> r.board]

\* A function evaluated on its whole domain, once: comparing a function
\* makes TLC enumerate it and keep the values.
Tabulated(f) == IF f = <<>> THEN f ELSE f

\* The board with a given number.
RECURSIVE boardDigits(_, _)
boardDigits(n, i) ==
    IF i > 8 THEN <<>>
    ELSE <<IF n % 3 = 0 THEN i ELSE IF n % 3 = 1 THEN huPlayer ELSE aiPlayer>>
         \o boardDigits(n \div 3, i + 1)

boardOf ==
    Tabulated([n \in 0..(NumBoards - 1) |->
                  LET d == boardDigits(n, 0)
                  IN  Tabulated([i \in Cells |-> d[i + 1]])])

markedOf == Tabulated([n \in 0..(NumBoards - 1) |-> marked(boardOf[n])])

\* The keys of the calls of minimax on a board with k marks.
callsWith(k) == {n \in 0..(2 * NumBoards - 1) : markedOf[n % NumBoards] = k}

\* minimaxFrom(k) is the sequence of the tables for the boards with k,
\* k + 1, ..., 9 marks; the table for k marks maps callKey(b, p) to the
\* result of minimax(b, p).  A call on a board with k marks only calls
\* minimax on boards with more than k marks.
RECURSIVE minimaxFrom(_)
minimaxFrom(k) ==
    LET deeper == IF k = 9 THEN <<>> ELSE minimaxFrom(k + 1)
        table  == [n \in callsWith(k) |->
                      minimaxBody(deeper, boardOf[n % NumBoards],
                                  IF n < NumBoards THEN huPlayer
                                                   ELSE aiPlayer)]
    IN  <<Tabulated(table)>> \o deeper

minimaxResults == minimaxFrom(0)

minimax(newBoard, player) == recursive(minimaxResults, newBoard, player)

bestSpot(board) == minimax(board, aiPlayer).index

\* The array moves of the call minimax(newBoard, player): empty when the
\* call returns at a terminal state.
movesOf(newBoard, player) ==
    LET availSpots == emptySquares(newBoard)
    IN  IF terminal(newBoard, availSpots) # <<>> THEN <<>>
        ELSE collectMoves(SubSeq(minimaxResults, marked(newBoard) + 2, 10),
                          newBoard, availSpots, 1, player, <<>>).moves

\* ------------------------------------------------------------------------
\* turn

\* The colours gameOver gives to the winning line.
huColor == "rgba(100, 255, 100, 0.7)"
aiColor == "rgba(255, 100, 100, 0.7)"

\* No cell is highlighted.
noHighlight == [i \in Cells |-> ""]

\* gameOver(gameWon): the new highlights and message (the emoji that ends
\* the message is left out).
gameOver(gameWon, colours) ==
    [highlight |->
         [i \in Cells |->
             IF \E e \in 1..3 : winCombos[gameWon.index + 1][e] = i
             THEN IF gameWon.player = huPlayer THEN huColor ELSE aiColor
             ELSE colours[i]],
     message |-> IF gameWon.player = huPlayer THEN "You Win!"
                                              ELSE "You Lose!"]

\* The message for the next player.
nextMessage(player) ==
    LET nextPlayer == IF player = huPlayer THEN aiPlayer ELSE huPlayer
    IN  IF nextPlayer = huPlayer THEN "Your's turn (X)" ELSE "AI's turn (O)"

\* turn with the tie tested before the win.
turnTieFirst(board, active, text, colours, squareId, player) ==
    LET b       == [board EXCEPT ![squareId] = player]
        gameWon == checkWin(b, player)
    IN  IF checkTie(b)
        THEN [board |-> b, gameActive |-> FALSE, message |-> "It's a Tie!",
              highlight |-> colours]
        ELSE IF gameWon # null
        THEN LET over == gameOver(gameWon[1], colours)
             IN  [board |-> b, gameActive |-> FALSE,
                  message |-> over.message, highlight |-> over.highlight]
        ELSE [board |-> b, gameActive |-> active,
              message |-> IF active THEN nextMessage(player) ELSE text,
              highlight |-> colours]

\* turn(squareId, player) on a cell index: the new board, flag, message
\* and highlights.
turn(board, active, text, colours, squareId, player) ==
    LET b       == [board EXCEPT ![squareId] = player]
        gameWon == checkWin(b, player)
    IN  IF gameWon # null
        THEN LET over == gameOver(gameWon[1], colours)
             IN  [board |-> b, gameActive |-> FALSE,
                  message |-> over.message, highlight |-> over.highlight]
        ELSE IF checkTie(b)
        THEN [board |-> b, gameActive |-> FALSE, message |-> "It's a Tie!",
              highlight |-> colours]
        ELSE [board |-> b, gameActive |-> active,
              message |-> IF active THEN nextMessage(player) ELSE text,
              highlight |-> colours]

\* ------------------------------------------------------------------------
\* The program

\* No direct call of a pure function is in progress.
NoCall == [fn |-> "none"]

\* The state after the script has loaded: startGame() has run once.
Init ==
    /\ origBoard = emptyBoard
    /\ gameActive = TRUE
    /\ message = "Your turn (X)"
    /\ highlight = noHighlight
    /\ timers = <<>>
    /\ lastOp = "startGame"
    /\ aiSince = -1
    /\ strict = TRUE
    /\ optimal = TRUE
    /\ call = NoCall

\* A new game is requested.  Pending callbacks are not cancelled.
startGame ==
    /\ call.fn = "none"
    /\ origBoard' = emptyBoard
    /\ gameActive' = TRUE
    /\ message' = "Your turn (X)"
    /\ highlight' = noHighlight
    /\ lastOp' = "startGame"
    /\ aiSince' = -1
    /\ strict' = TRUE
    /\ optimal' = TRUE
    /\ UNCHANGED <<timers, call>>

\* The condition without the test of gameActive.
clickAcceptedInactive(c) == typeofNumber(origBoard[c])

\* The condition without the test of the cell.
clickAcceptedOccupied(c) == gameActive

\* The condition under which turnClick acts on a click on cell c.
clickAccepted(c) == gameActive /\ typeofNumber(origBoard[c])

\* A click on cell c.
turnClick(c) ==
    /\ call.fn = "none"
    /\ IF clickAccepted(c)
       THEN \E t \in {turn(origBoard, gameActive, message, highlight, c,
                            huPlayer)} :
                /\ t.gameActive => Len(timers) < MaxPending
                /\ origBoard' = t.board
                /\ gameActive' = t.gameActive
                /\ message' = IF t.gameActive THEN "AI is thinking..."
                                              ELSE t.message
                /\ highlight' = t.highlight
                /\ timers' = IF t.gameActive
                             THEN Append(timers, bestSpot(t.board))
                             ELSE timers
                /\ lastOp' = "humanMove"
                /\ aiSince' = 0
                /\ strict' = (strict /\ aiSince \in {-1, 1})
                /\ optimal' =
                       (optimal /\ c = minimax(origBoard, huPlayer).index)
       ELSE /\ lastOp' = "rejectedClick"
            /\ UNCHANGED <<origBoard, gameActive, message, highlight, timers,
                           aiSince, strict, optimal>>
    /\ UNCHANGED call

\* The oldest pending callback fires: turn(bestSpot(), aiPlayer).  The
\* search of bestSpot works on origBoard itself; searched is the array as
\* the search leaves it.  When
\* bestSpot() is undefined, turn writes the property origBoard[undefined],
\* which is none of the 9 cells, and document.getElementById(undefined) is
\* null, so that line 61 throws a TypeError and the callback ends there.
aiCallback ==
    /\ call.fn = "none"
    /\ timers # <<>>
    /\ timers' = Tail(timers)
    /\ \E r \in {minimax(origBoard, aiPlayer)} :
           LET squareId == r.index
               searched == r.board
           IN  IF squareId = undefined
               THEN /\ origBoard' = searched
                    /\ lastOp' = "aiThrow"
                    /\ UNCHANGED <<gameActive, message, highlight, aiSince,
                                   strict>>
               ELSE \E t \in {turn(searched, gameActive, message, highlight,
                                    squareId, aiPlayer)} :
                    /\ origBoard' = t.board
                    /\ gameActive' = t.gameActive
                    /\ message' = t.message
                    /\ highlight' = t.highlight
                    /\ lastOp' = "aiMove"
                    /\ aiSince' = IF aiSince = -1 THEN -1 ELSE aiSince + 1
                    /\ strict' = (strict /\ aiSince = 0)
    /\ UNCHANGED <<optimal, call>>

Next ==
    \/ startGame
    \/ \E c \in Cells : turnClick(c)
    \/ aiCallback

Spec == Init /\ [][Next]_vars

\* ------------------------------------------------------------------------
\* One game, played to its end: no new game is requested, the Human keeps
\* clicking an empty cell while the game is active, and every scheduled
\* callback eventually fires.

acceptedClick == \E c \in Cells : clickAccepted(c) /\ turnClick(c)

NextGame ==
    \/ \E c \in Cells : turnClick(c)
    \/ aiCallback

SpecGame ==
    /\ Init
    /\ [][NextGame]_vars
    /\ WF_vars(acceptedClick)
    /\ WF_vars(aiCallback)

\* ------------------------------------------------------------------------
\* checkWin called directly on any board

InitCheckWin ==
    /\ origBoard \in AllBoards
    /\ gameActive = TRUE
    /\ message = "Your turn (X)"
    /\ highlight = noHighlight
    /\ timers = <<>>
    /\ lastOp = "startGame"
    /\ aiSince = -1
    /\ strict = TRUE
    /\ optimal = TRUE
    /\ \E p \in {huPlayer, aiPlayer} :
           call = [fn |-> "checkWin", player |-> p, done |-> FALSE,
                   result |-> null]

callCheckWin ==
    /\ call.fn = "checkWin"
    /\ ~call.done
    /\ call' = [call EXCEPT !.done = TRUE,
                            !.result = checkWin(origBoard, call.player)]
    /\ UNCHANGED <<origBoard, gameActive, message, highlight, timers, lastOp,
                   aiSince, strict, optimal>>

NextCheckWin == callCheckWin

SpecCheckWin == InitCheckWin /\ [][NextCheckWin]_vars

\* ------------------------------------------------------------------------
\* minimax called directly on any board, for either player

InitMinimax ==
    /\ origBoard \in AllBoards
    /\ gameActive = TRUE
    /\ message = "Your turn (X)"
    /\ highlight = noHighlight
    /\ timers = <<>>
    /\ lastOp = "startGame"
    /\ aiSince = -1
    /\ strict = TRUE
    /\ optimal = TRUE
    /\ \E p \in {huPlayer, aiPlayer} :
           call = [fn |-> "minimax", player |-> p, board |-> origBoard,
                   done |-> FALSE, result |-> <<>>, moves |-> <<>>]

\* minimax(origBoard, player) runs: the array is left as the search leaves
\* it; call.board is the array as it was passed.
callMinimax ==
    /\ call.fn = "minimax"
    /\ ~call.done
    /\ LET r == minimax(origBoard, call.player)
       IN  /\ origBoard' = r.board
           /\ call' = [call EXCEPT
                          !.done = TRUE,
                          !.result = [score |-> r.score, index |-> r.index],
                          !.moves = movesOf(origBoard, call.player)]
    /\ UNCHANGED <<gameActive, message, highlight, timers, lastOp, aiSince,
                   strict, optimal>>

NextMinimax == callMinimax

SpecMinimax == InitMinimax /\ [][NextMinimax]_vars

\* ------------------------------------------------------------------------
\* Properties

\* The number of cells of the board that hold the player's mark.
count(player) == Cardinality({i \in Cells : origBoard[i] = player})

\* The 8 lines, as sets of cells.
ClaimedLines ==
    << {0, 1, 2}, {3, 4, 5}, {6, 7, 8},
       {0, 3, 6}, {1, 4, 7}, {2, 5, 8},
       {0, 4, 8}, {2, 4, 6} >>

\* The (1-based) positions of the lines fully marked by the player.
fullLines(player) ==
    {k \in 1..8 : \A c \in ClaimedLines[k] : origBoard[c] = player}

hasLine(player) == fullLines(player) # {}

boardFull == \A c \in Cells : origBoard[c] \in {huPlayer, aiPlayer}

isTie == boardFull /\ ~hasLine(huPlayer) /\ ~hasLine(aiPlayer)

\* C1: in a game that has proceeded by strict alternation of a human move
\* (any empty cell) and the AI's bestSpot move, X never has a complete win
\* line, and a finished game is an AI win or a Tie.
AINeverLoses ==
    strict => /\ ~hasLine(huPlayer)
              /\ ~gameActive => (hasLine(aiPlayer) \/ isTie)

\* A strictly alternating game the AI has won.
AINeverLosesWitness ==
    strict /\ ~gameActive /\ hasLine(aiPlayer) /\ lastOp = "aiMove"

\* C2: when the Human also plays the cell minimax selects (as minimizer,
\* first from the empty board) and the moves strictly alternate, a finished
\* game is a Tie: the board is full and neither X nor O has a line.
OptimalPlayTies ==
    (strict /\ optimal /\ ~gameActive) => isTie

\* A finished game of minimax against minimax.
OptimalPlayTiesWitness ==
    strict /\ optimal /\ ~gameActive /\ count(huPlayer) = 5

\* C3: every accepted human move is followed by exactly one AI move before
\* the next human move is accepted: when a human move is accepted, it is the
\* first of the game or exactly one AI move was applied since the last one.
MovesSerialized ==
    [][lastOp' = "humanMove" => aiSince \in {-1, 1}]_vars

\* C4: the number of X marks minus the number of O marks is 0 or 1.
MarkBalance ==
    count(huPlayer) - count(aiPlayer) \in {0, 1}

\* C5: once gameActive is false, no step other than startGame changes the
\* 9 cells or gameActive: neither a click nor a pending AI callback.
TerminalIsFinal ==
    [][(~gameActive /\ lastOp' # "startGame")
          => UNCHANGED <<origBoard, gameActive>>]_vars

\* An AI callback scheduled before the game ended has fired after it.
TerminalIsFinalWitness ==
    ~gameActive /\ lastOp = "aiThrow"

\* C6: a click on an occupied cell, or on any cell while gameActive is
\* false, changes neither the board nor gameActive and schedules nothing.
RejectedClickNoEffect ==
    [][\A c \in Cells :
          (turnClick(c) /\ (~gameActive \/ ~typeofNumber(origBoard[c])))
             => UNCHANGED <<origBoard, gameActive, timers>>]_vars

\* A click on an occupied cell of a running game has been rejected.
RejectedClickNoEffectWitness ==
    lastOp = "rejectedClick" /\ gameActive /\ origBoard # emptyBoard

\* C7: after every applied move, gameActive is false iff the mover has a
\* complete line or the board has no empty cell.
ActiveIffNotOver ==
    [][/\ lastOp' = "humanMove" =>
             ((gameActive' = FALSE) <=> (hasLine(huPlayer)' \/ boardFull'))
       /\ lastOp' = "aiMove" =>
             ((gameActive' = FALSE) <=> (hasLine(aiPlayer)' \/ boardFull'))]_vars

\* A move has filled the board without completing a line.
ActiveIffNotOverWitness ==
    lastOp \in {"humanMove", "aiMove"} /\ ~gameActive /\ isTie

\* C8: the first mark placed on the board after a startGame is X.
FirstMarkIsX ==
    [][(origBoard = emptyBoard /\ origBoard' # emptyBoard)
          => \A c \in Cells : origBoard'[c] # aiPlayer]_vars

\* C9: the cell the AI marks is the cell bestSpot selected on the board as
\* it stood right after the human move that scheduled the callback.
DelayKeepsMove ==
    [][lastOp' = "aiMove" =>
          \A c \in Cells : origBoard'[c] # origBoard[c] => c = Head(timers)]_vars

\* C10: checkWin(board, p) returns the lowest-indexed line, in the order
\* rows, columns, diagonal (0,4,8), diagonal (2,4,6), whose three cells are
\* all marked by p, and null exactly when no line is.
CheckWinFirstLine ==
    (call.fn = "checkWin" /\ call.done) =>
        LET full == fullLines(call.player)
        IN  IF full = {}
            THEN call.result = null
            ELSE \E k \in full :
                    /\ \A j \in full : k <= j
                    /\ call.result = << [index |-> k - 1,
                                         player |-> call.player] >>

\* checkWin has returned on a board with several complete lines of p.
CheckWinFirstLineWitness ==
    /\ call.fn = "checkWin"
    /\ call.done
    /\ Cardinality(fullLines(call.player)) >= 2
    /\ call.result # null

\* C11: the board after a call of minimax is cell for cell the board
\* before it, and every candidate move was evaluated on the board before
\* the call plus that one mark.
SearchNoSideEffect ==
    (call.fn = "minimax" /\ call.done) =>
        /\ origBoard = call.board
        /\ \A i \in 1..Len(call.moves) :
               call.moves[i].board =
                   [call.board EXCEPT ![call.moves[i].index] = call.player]

\* A search over several candidates has returned.
SearchNoSideEffectWitness ==
    call.fn = "minimax" /\ call.done /\ Len(call.moves) >= 3

\* The (1-based) positions of the lines fully marked by the player on a
\* board.
fullLinesOn(board, player) ==
    {k \in 1..8 : \A c \in ClaimedLines[k] : board[c] = player}

emptyCells(board) == {c \in Cells : board[c] \notin {huPlayer, aiPlayer}}

\* C12: at a board with a complete X line minimax scores -10, also when O
\* has a line or the board is full; otherwise at a complete O line +10;
\* otherwise at a full board 0; for either player to move, whatever the
\* number of marks, and without generating any move.
TerminalScoring ==
    (call.fn = "minimax" /\ call.done) =>
        LET x    == fullLinesOn(call.board, huPlayer) # {}
            o    == fullLinesOn(call.board, aiPlayer) # {}
            full == emptyCells(call.board) = {}
            flat(score) == /\ call.result.score = score
                           /\ call.result.index = undefined
                           /\ call.moves = <<>>
        IN  /\ x => flat(-10)
            /\ (~x /\ o) => flat(10)
            /\ (~x /\ ~o /\ full) => flat(0)

\* minimax has scored a board on which both X and O have a line.
TerminalScoringWitness ==
    /\ call.fn = "minimax"
    /\ call.done
    /\ fullLinesOn(call.board, huPlayer) # {}
    /\ fullLinesOn(call.board, aiPlayer) # {}
    /\ call.result.score = -10

\* The board of the call is not terminal.
callOpen ==
    /\ fullLinesOn(call.board, huPlayer) = {}
    /\ fullLinesOn(call.board, aiPlayer) = {}
    /\ emptyCells(call.board) # {}

\* The minimax value of the board of the call after the player of the call
\* has marked cell c.
valueAfter(c) ==
    minimax([call.board EXCEPT ![c] = call.player],
            IF call.player = aiPlayer THEN huPlayer ELSE aiPlayer).score

\* The best of the values of the empty cells for the player of the call.
bestValue ==
    CHOOSE v \in {valueAfter(c) : c \in emptyCells(call.board)} :
        \A c \in emptyCells(call.board) :
            IF call.player = aiPlayer THEN valueAfter(c) <= v
                                      ELSE valueAfter(c) >= v

\* C13: on a non-terminal board minimax returns the lowest-indexed empty
\* cell among those with the maximum value (AI to move) or the minimum
\* value (Human to move), and that value as its score.
MinimaxSelection ==
    (call.fn = "minimax" /\ call.done /\ callOpen) =>
        /\ call.result.score = bestValue
        /\ call.result.index \in emptyCells(call.board)
        /\ valueAfter(call.result.index) = bestValue
        /\ \A c \in emptyCells(call.board) :
               valueAfter(c) = bestValue => call.result.index <= c

\* The AI had several cells of the maximum value, and others of less.
MinimaxSelectionWitness ==
    /\ call.fn = "minimax"
    /\ call.done
    /\ callOpen
    /\ call.player = aiPlayer
    /\ Cardinality({c \in emptyCells(call.board) :
                        valueAfter(c) = bestValue}) >= 2
    /\ \E c \in emptyCells(call.board) : valueAfter(c) # bestValue

\* [X, X, Empty, O, O, Empty, Empty, Empty, Empty]
BlockBoard ==
    [emptyBoard EXCEPT ![0] = huPlayer, ![1] = huPlayer,
                       ![3] = aiPlayer, ![4] = aiPlayer]

\* C14: on the board [X, X, Empty, O, O, Empty, Empty, Empty, Empty] with
\* the AI to move the search returns index 2.
BlockScenario ==
    (/\ call.fn = "minimax"
     /\ call.done
     /\ call.board = BlockBoard
     /\ call.player = aiPlayer) => call.result.index = 2

\* The search on that board has returned.
BlockScenarioWitness ==
    /\ call.fn = "minimax"
    /\ call.done
    /\ call.board = BlockBoard
    /\ call.player = aiPlayer

\* C15: on the empty board with the AI to move the search returns a corner
\* or the center, and the position after that move, Human to move, has the
\* minimax value 0.
EmptyBoardOpening ==
    (/\ call.fn = "minimax"
     /\ call.done
     /\ call.board = emptyBoard
     /\ call.player = aiPlayer) =>
        /\ call.result.index \in {0, 2, 4, 6, 8}
        /\ minimax([emptyBoard EXCEPT ![call.result.index] = aiPlayer],
                   huPlayer).score = 0

\* The search on the empty board has returned a cell.
EmptyBoardOpeningWitness ==
    /\ call.fn = "minimax"
    /\ call.done
    /\ call.board = emptyBoard
    /\ call.player = aiPlayer
    /\ call.result.index \in Cells

\* The win outcome of the player: gameOver has run with the first line of
\* the player, and not the tie branch.
wonBy(player) ==
    /\ message = (IF player = huPlayer THEN "You Win!" ELSE "You Lose!")
    /\ \E k \in fullLines(player) :
          /\ \A j \in fullLines(player) : k <= j
          /\ \A c \in Cells :
                highlight[c] =
                    IF c \in ClaimedLines[k]
                    THEN IF player = huPlayer THEN huColor ELSE aiColor
                    ELSE ""

\* C16: a move that fills the last empty cell and completes a line of the
\* mover gives the win outcome of the mover, never the tie.
WinBeforeTie ==
    [][/\ (lastOp' = "humanMove" /\ boardFull' /\ hasLine(huPlayer)')
             => wonBy(huPlayer)'
       /\ (lastOp' = "aiMove" /\ boardFull' /\ hasLine(aiPlayer)')
             => wonBy(aiPlayer)']_vars

\* The Human has completed a line with the mark that filled the board.
WinBeforeTieWitness ==
    lastOp = "humanMove" /\ boardFull /\ hasLine(huPlayer)

\* C17: between two startGame calls a cell only changes from empty to X
\* or O: a marked cell is never overwritten.
NoOverwrite ==
    [][lastOp' # "startGame" =>
          \A c \in Cells :
              origBoard'[c] # origBoard[c] =>
                  /\ origBoard[c] = c
                  /\ origBoard'[c] \in {huPlayer, aiPlayer}]_vars

\* The AI has marked a cell of a board that already held marks.
NoOverwriteWitness ==
    lastOp = "aiMove" /\ count(huPlayer) >= 2 /\ count(aiPlayer) >= 2

\* C18: no reachable board has a complete line of X and a complete line of
\* O at the same time.
NoDoubleWin ==
    ~(hasLine(huPlayer) /\ hasLine(aiPlayer))

\* X has won with callbacks still pending, and one of them has fired on
\* the won board.
NoDoubleWinWitness ==
    hasLine(huPlayer) /\ lastOp = "aiThrow" /\ ~boardFull

\* C19: the game reaches gameActive = false; every applied move adds
\* exactly one mark, so that at most 9 moves are applied.
GameTerminates ==
    /\ <>(~gameActive)
    /\ [][lastOp' \in {"humanMove", "aiMove"} =>
             marked(origBoard') = marked(origBoard) + 1]_vars
    /\ [](marked(origBoard) <= 9)

\* The game has ended with the ninth mark.
GameTerminatesWitness ==
    ~gameActive /\ marked(origBoard) = 9 /\ timers = <<>>

====
